---- MODULE Spec2Model ----
(***************************************************************************)
(* Model of the HomePage component of frontend/app/page.js: five useState  *)
(* cells, one mount effect that starts fetchAqiData and fetchStatusData,   *)
(* joins them with Promise.all inside loadAllData, and a render that is a  *)
(* function of the five cells.                                             *)
(*                                                                         *)
(* Environment: the two endpoints answer as the external interface allows  *)
(* (a transport failure, or an HTTP response whose body either does not    *)
(* parse or parses to an object whose fields may be absent).               *)
(***************************************************************************)
EXTENDS Integers, Sequences, FiniteSets, TLC

VARIABLES todayAqi, forecast, loading, error, lastUpdated,
          aqiReq, statusReq, all, loadPc, history

vars == <<todayAqi, forecast, loading, error, lastUpdated,
          aqiReq, statusReq, all, loadPc, history>>

view == <<todayAqi, forecast, loading, error, lastUpdated>>

(* ---------------- bounds ---------------- *)

\* longest forecast array an /api/forecast body carries
MaxDays == 2

(* ---------------- JavaScript values ---------------- *)

JNull == [t |-> "null"]

JUndefined == [t |-> "undefined"]

JStr(s) == [t |-> "string", v |-> s]

JArr(s) == [t |-> "array", v |-> s]

JObj(o) == [t |-> "object", v |-> o]

\* ToBoolean on the values that occur here: null, undefined and "" are falsy
Truthy(x) == /\ x.t # "null"
             /\ x.t # "undefined"
             /\ ~(x.t = "string" /\ x.v = "")

\* a || b
OrElse(a, b) == IF Truthy(a) THEN a ELSE b

(* ---------------- payloads ---------------- *)

\* calendar dates of forecast entries, as day offsets from today
DayDates == 1..MaxDays

AqiValues == {120, 150}

ForecastDay == [date : DayDates, predicted_aqi : AqiValues]

\* forecast arrays: entries have unique dates, in any order
ForecastArrays ==
    {s \in UNION {[1..n -> ForecastDay] : n \in 0..MaxDays} :
        \A i, j \in 1..Len(s) : i # j => s[i].date # s[j].date}

TodayReading == JObj([aqi |-> 142, date |-> 0])

Timestamp == "2025-08-17T22:30:00Z"

\* a parsed JSON object; a field the object lacks reads as undefined
Body(today, fc, upd, detail) ==
    [today |-> today, forecast |-> fc,
     model_last_updated_utc |-> upd, detail |-> detail]

EmptyBody == Body(JUndefined, JUndefined, JUndefined, JUndefined)

ForecastBodies ==
    {Body(td, JArr(f), JUndefined, JUndefined) :
        td \in {JUndefined, TodayReading}, f \in ForecastArrays}

StatusBodies ==
    {Body(JUndefined, JUndefined, u, JUndefined) :
        u \in {JUndefined, JNull, JStr(Timestamp)}}

ErrorBodies ==
    {Body(JUndefined, JUndefined, JUndefined, d) :
        d \in {JUndefined, JStr(""), JStr("X"), JStr("Y")}}

\* what fetch() can deliver
NoResponse == [kind |-> "none", ok |-> FALSE, parses |-> FALSE, body |-> EmptyBody]

TransportFailure == [kind |-> "transport", ok |-> FALSE, parses |-> FALSE, body |-> EmptyBody]

Http(ok, parses, body) == [kind |-> "http", ok |-> ok, parses |-> parses, body |-> body]

Responses(okBodies) ==
    {TransportFailure}
    \cup {Http(ok, FALSE, EmptyBody) : ok \in BOOLEAN}
    \cup {Http(TRUE, TRUE, b) : b \in okBodies}
    \cup {Http(FALSE, TRUE, b) : b \in ErrorBodies}

ForecastResponses == Responses(ForecastBodies)

StatusResponses == Responses(StatusBodies)

(* ---------------- messages ---------------- *)

\* message of the TypeError fetch() rejects with
NetworkErrorMessage == "Failed to fetch"

\* message of the SyntaxError response.json() rejects with
SyntaxErrorMessage == "Unexpected token < in JSON"

AqiFallback == "Failed to fetch AQI forecast."

StatusFallback == "Failed to fetch API status."

(* ---------------- fetchAqiData / fetchStatusData ---------------- *)

Pending == [st |-> "pending", value |-> EmptyBody, reason |-> ""]

Fulfilled(b) == [st |-> "fulfilled", value |-> b, reason |-> ""]

Rejected(m) == [st |-> "rejected", value |-> EmptyBody, reason |-> m]

\* variant: the detail field of the error body is not consulted
JsonOutcome_noDetail(resp, fallback) ==
    IF ~resp.parses THEN Rejected(SyntaxErrorMessage)
    ELSE IF ~resp.ok THEN Rejected(fallback)
    ELSE Fulfilled(resp.body)

\* the promise of one fetch function once response.json() has settled
JsonOutcome(resp, fallback) ==
    IF ~resp.parses THEN Rejected(SyntaxErrorMessage)
    ELSE IF ~resp.ok THEN Rejected(OrElse(resp.body.detail, JStr(fallback)).v)
    ELSE Fulfilled(resp.body)

\* the promise of one fetch function once fetch() has settled
FetchOutcome(resp) ==
    IF resp.kind = "transport" THEN Rejected(NetworkErrorMessage) ELSE Pending

(* ---------------- Promise.all ---------------- *)

AllPending == [st |-> "pending", reason |-> ""]

\* variant: a race, settled by whichever input settles first
PromiseAll_race(cur, out, other) ==
    IF cur.st # "pending" THEN cur
    ELSE IF out.st = "rejected" THEN [st |-> "rejected", reason |-> out.reason]
    ELSE IF out.st = "fulfilled" THEN [st |-> "fulfilled", reason |-> ""]
    ELSE cur

\* variant: a later rejection replaces the reason already taken
PromiseAll_lastWins(cur, out, other) ==
    IF out.st = "rejected" THEN [st |-> "rejected", reason |-> out.reason]
    ELSE IF cur.st # "pending" THEN cur
    ELSE IF out.st = "fulfilled" /\ other.st = "fulfilled"
         THEN [st |-> "fulfilled", reason |-> ""]
    ELSE cur

\* variant: a join that only counts fulfilments
PromiseAll_onlyFulfils(cur, out, other) ==
    IF cur.st # "pending" THEN cur
    ELSE IF out.st = "fulfilled" /\ other.st = "fulfilled"
         THEN [st |-> "fulfilled", reason |-> ""]
    ELSE cur

\* Promise.all([fetchAqiData(), fetchStatusData()]) when one input settles
\* as out while the other input is in state other
PromiseAll(cur, out, other) ==
    IF cur.st # "pending" THEN cur
    ELSE IF out.st = "rejected" THEN [st |-> "rejected", reason |-> out.reason]
    ELSE IF out.st = "fulfilled" /\ other.st = "fulfilled"
         THEN [st |-> "fulfilled", reason |-> ""]
    ELSE cur

(* ---------------- loadAllData ---------------- *)

\* variant: the catch block does not call setError
LoadAllDataResult_noSetError(cur, p, aqiData, statusData) ==
    IF p.st = "fulfilled"
    THEN [cur EXCEPT !.todayAqi = aqiData.today,
                     !.forecast = aqiData.forecast,
                     !.lastUpdated = statusData.model_last_updated_utc,
                     !.loading = FALSE]
    ELSE [cur EXCEPT !.loading = FALSE]

\* variant: setLoading(false) ends the try block instead of a finally block
LoadAllDataResult_noFinally(cur, p, aqiData, statusData) ==
    IF p.st = "fulfilled"
    THEN [cur EXCEPT !.todayAqi = aqiData.today,
                     !.forecast = aqiData.forecast,
                     !.lastUpdated = statusData.model_last_updated_utc,
                     !.loading = FALSE]
    ELSE [cur EXCEPT !.error = JStr(p.reason)]

\* the five state cells after the continuation of loadAllData has run from
\* cells cur: the rest of the try block, or the catch block, and then the
\* finally block
LoadAllDataResult(cur, p, aqiData, statusData) ==
    IF p.st = "fulfilled"
    THEN [cur EXCEPT !.todayAqi = aqiData.today,
                     !.forecast = aqiData.forecast,
                     !.lastUpdated = statusData.model_last_updated_utc,
                     !.loading = FALSE]
    ELSE [cur EXCEPT !.error = JStr(p.reason),
                     !.loading = FALSE]

(* ---------------- render ---------------- *)

\* toLocaleString with dateStyle long, timeStyle short
formatDate(isoString) ==
    IF ~Truthy(isoString) THEN "" ELSE "long/short:" \o isoString.v

\* variant: rows come out in reverse array order
Rows_reversed(days) ==
    [i \in 1..Len(days) |->
        <<days[Len(days) + 1 - i].date, days[Len(days) + 1 - i].predicted_aqi>>]

\* forecast.map: one row per entry, in array order
Rows(days) == [i \in 1..Len(days) |-> <<days[i].date, days[i].predicted_aqi>>]

NoRows == <<>>

Blank == [screen |-> "", message |-> "", label |-> "", today |-> "", rows |-> NoRows]

\* variant: the forecast list is rendered inside the todayAqi guard
Render_todayGuard ==
    IF loading THEN [Blank EXCEPT !.screen = "loading"]
    ELSE IF Truthy(error) THEN [Blank EXCEPT !.screen = "error", !.message = error.v]
    ELSE [screen |-> "ready",
          message |-> "",
          label |-> IF Truthy(lastUpdated) THEN formatDate(lastUpdated) ELSE "",
          today |-> IF Truthy(todayAqi) THEN "aqi" ELSE "",
          rows |-> IF Truthy(todayAqi) /\ Truthy(forecast) THEN Rows(forecast.v) ELSE NoRows]

\* what HomePage returns for the current state cells
Render ==
    IF loading THEN [Blank EXCEPT !.screen = "loading"]
    ELSE IF Truthy(error) THEN [Blank EXCEPT !.screen = "error", !.message = error.v]
    ELSE [screen |-> "ready",
          message |-> "",
          label |-> IF Truthy(lastUpdated) THEN formatDate(lastUpdated) ELSE "",
          today |-> IF Truthy(todayAqi) THEN "aqi" ELSE "",
          rows |-> IF Truthy(forecast) THEN Rows(forecast.v) ELSE NoRows]

(* ---------------- state machine ---------------- *)

Idle == [pc |-> "idle", resp |-> NoResponse, out |-> Pending]

Init ==
    /\ todayAqi = JNull
    /\ forecast = JNull
    /\ loading = TRUE
    /\ error = JNull
    /\ lastUpdated = JNull
    /\ aqiReq = Idle
    /\ statusReq = Idle
    /\ all = AllPending
    /\ loadPc = "idle"
    /\ history = <<>>

\* variant: the effect has no dependency array and runs again after a render
Mount_everyRender ==
    /\ loadPc \in {"idle", "done"}
    /\ loadPc' = "await"
    /\ aqiReq' = [Idle EXCEPT !.pc = "fetch"]
    /\ statusReq' = [Idle EXCEPT !.pc = "fetch"]
    /\ all' = AllPending
    /\ history' = <<>>
    /\ UNCHANGED view

\* useEffect: loadAllData() calls both fetch functions and awaits Promise.all
Mount ==
    /\ loadPc = "idle"
    /\ loadPc' = "await"
    /\ aqiReq' = [aqiReq EXCEPT !.pc = "fetch"]
    /\ statusReq' = [statusReq EXCEPT !.pc = "fetch"]
    /\ UNCHANGED <<view, all, history>>

\* one fetch function moves on when fetch() settles with resp
AfterFetch(req, resp) ==
    LET out == FetchOutcome(resp)
    IN [pc |-> IF out.st = "pending" THEN "json" ELSE "done", resp |-> resp, out |-> out]

\* one fetch function moves on when response.json() settles
AfterJson(req, fallback) ==
    [req EXCEPT !.pc = "done", !.out = JsonOutcome(req.resp, fallback)]

\* history lists, in the order they happened, the settling of each fetch
\* function ("aqi", "status") and the run of the continuation ("load")
Record(name, req) == IF req.out.st = "pending" THEN history ELSE Append(history, name)

AqiFetchSettles ==
    /\ aqiReq.pc = "fetch"
    /\ \E resp \in ForecastResponses :
         LET r == AfterFetch(aqiReq, resp)
         IN /\ aqiReq' = r
            /\ all' = PromiseAll(all, r.out, statusReq.out)
            /\ history' = Record("aqi", r)
    /\ UNCHANGED <<view, statusReq, loadPc>>

AqiJsonSettles ==
    /\ aqiReq.pc = "json"
    /\ LET r == AfterJson(aqiReq, AqiFallback)
       IN /\ aqiReq' = r
          /\ all' = PromiseAll(all, r.out, statusReq.out)
          /\ history' = Record("aqi", r)
    /\ UNCHANGED <<view, statusReq, loadPc>>

StatusFetchSettles ==
    /\ statusReq.pc = "fetch"
    /\ \E resp \in StatusResponses :
         LET r == AfterFetch(statusReq, resp)
         IN /\ statusReq' = r
            /\ all' = PromiseAll(all, r.out, aqiReq.out)
            /\ history' = Record("status", r)
    /\ UNCHANGED <<view, aqiReq, loadPc>>

StatusJsonSettles ==
    /\ statusReq.pc = "json"
    /\ LET r == AfterJson(statusReq, StatusFallback)
       IN /\ statusReq' = r
          /\ all' = PromiseAll(all, r.out, aqiReq.out)
          /\ history' = Record("status", r)
    /\ UNCHANGED <<view, aqiReq, loadPc>>

Cells == [todayAqi |-> todayAqi, forecast |-> forecast, lastUpdated |-> lastUpdated,
          error |-> error, loading |-> loading]

\* the continuation of loadAllData after the await; its set-state calls are
\* made in one synchronous run and are committed together
LoadAllDataResumes ==
    /\ loadPc = "await"
    /\ all.st # "pending"
    /\ LET s == LoadAllDataResult(Cells, all, aqiReq.out.value, statusReq.out.value)
       IN /\ todayAqi' = s.todayAqi
          /\ forecast' = s.forecast
          /\ lastUpdated' = s.lastUpdated
          /\ error' = s.error
          /\ loading' = s.loading
    /\ loadPc' = "done"
    /\ history' = Append(history, "load")
    /\ UNCHANGED <<aqiReq, statusReq, all>>

Next ==
    \/ Mount
    \/ AqiFetchSettles
    \/ AqiJsonSettles
    \/ StatusFetchSettles
    \/ StatusJsonSettles
    \/ LoadAllDataResumes

Spec == Init /\ [][Next]_vars

\* the event loop runs a continuation whose awaited promise has settled
FairSpec == Spec /\ WF_vars(LoadAllDataResumes)

(* ---------------- observations used by the properties ---------------- *)

Done == loadPc = "done"

Settled(req) == req.out.st # "pending"

BothSettled == Settled(aqiReq) /\ Settled(statusReq)

BothFulfilled == aqiReq.out.st = "fulfilled" /\ statusReq.out.st = "fulfilled"

SomeRejected == aqiReq.out.st = "rejected" \/ statusReq.out.st = "rejected"

BothRejected == aqiReq.out.st = "rejected" /\ statusReq.out.st = "rejected"

ReqOf(name) == IF name = "aqi" THEN aqiReq ELSE statusReq

RejectedAt == {i \in 1..Len(history) :
                  history[i] # "load" /\ ReqOf(history[i]).out.st = "rejected"}

\* the fetch function whose rejection came first, "none" if none rejected
FirstRejected ==
    IF RejectedAt = {} THEN "none"
    ELSE history[CHOOSE i \in RejectedAt : \A j \in RejectedAt : i <= j]

\* HTTP success with a body that parses
Good(resp) == resp.kind = "http" /\ resp.ok /\ resp.parses

\* HTTP non-success
Bad(resp) == resp.kind = "http" /\ ~resp.ok

NoContent(r) == r.today = "" /\ r.rows = NoRows /\ r.label = ""

(* ---------------- properties ---------------- *)

\* C1 as stated: the loading flag is cleared only after both requests have
\* settled, whether they succeeded or failed.
C1_AsStated == ~loading => BothSettled

\* C1, amended: the loading flag is cleared only after both requests have
\* fulfilled or after one of them has rejected; a rejection ends the loading
\* phase without waiting for the other request.
C1_LoadingUntilJoined == ~loading => (BothFulfilled \/ SomeRejected)

C1_Witness == ~loading /\ SomeRejected /\ ~BothSettled

\* C2: when /api/status answers non-success with a body that does not parse,
\* or that parses without a detail field, and this is the failure the joint
\* wait observes, the error view shows 'Failed to fetch API status.' and no
\* forecast content.
C2_StatusFallback ==
    (/\ Done
     /\ Bad(statusReq.resp)
     /\ (~statusReq.resp.parses \/ statusReq.resp.body.detail = JUndefined)
     /\ FirstRejected = "status")
    => (/\ Render.screen = "error"
        /\ Render.message = StatusFallback
        /\ NoContent(Render))

\* C3 as stated: when /api/forecast answers non-success with a JSON body whose
\* detail is X, the error view shows exactly X, whatever /api/status does and
\* in whichever order the two settle.
C3_AsStated ==
    (Done /\ Bad(aqiReq.resp) /\ aqiReq.resp.parses
          /\ aqiReq.resp.body.detail.t = "string")
    => (Render.screen = "error" /\ Render.message = aqiReq.resp.body.detail.v)

\* C3, amended: when /api/forecast answers non-success with a JSON body whose
\* detail is a non-empty X, the view ends in the error view; the message is X
\* when the forecast request is the first to reject, and the message of the
\* status request when that one rejected first.
C3_ForecastDetail ==
    (Done /\ Bad(aqiReq.resp) /\ aqiReq.resp.parses
          /\ Truthy(aqiReq.resp.body.detail))
    => (/\ Render.screen = "error"
        /\ FirstRejected = "aqi" => Render.message = aqiReq.resp.body.detail.v
        /\ FirstRejected = "status" => Render.message = statusReq.out.reason
        /\ FirstRejected # "none")

C3_Witness ==
    /\ Done
    /\ Bad(aqiReq.resp)
    /\ aqiReq.resp.body.detail = JStr("X")
    /\ statusReq.out.st = "rejected"
    /\ Render.message = "X"

\* C4: once loading has ended with at least one request rejected, the render
\* is the error view with the captured message (the first rejection's), and
\* it has no today block, no forecast row and no last-updated label, also
\* when the other request fulfilled.
C4_FailTogether ==
    (~loading /\ SomeRejected)
    => (/\ Render.screen = "error"
        /\ Render.message # ""
        /\ Render.message = ReqOf(FirstRejected).out.reason
        /\ NoContent(Render))

C4_Witness ==
    /\ ~loading
    /\ aqiReq.out.st = "fulfilled"
    /\ Len(aqiReq.out.value.forecast.v) > 0
    /\ aqiReq.out.value.today = TodayReading
    /\ statusReq.out.st = "rejected"

C6_MutatedOnce ==
    [][/\ ~loading => view' = view
       /\ view' # view => (loading /\ ~loading')]_vars

\* the continuation ran on the status request's rejection and the forecast
\* request settled after it
C6_Witness ==
    /\ history = <<"status", "load", "aqi">>
    /\ aqiReq.out.st = "rejected"
    /\ aqiReq.out.reason # statusReq.out.reason

\* C7: when both requests answer HTTP success with a body that parses, the
\* finished load shows the ready view with todayAqi, forecast and lastUpdated
\* taken from the two bodies and one row per forecast entry, in array order.
C7_SuccessPath ==
    (Done /\ Good(aqiReq.resp) /\ Good(statusReq.resp))
    => LET fb == aqiReq.resp.body
           sb == statusReq.resp.body
           r == Render
       IN /\ ~loading
          /\ r.screen = "ready"
          /\ todayAqi = fb.today
          /\ forecast = fb.forecast
          /\ lastUpdated = sb.model_last_updated_utc
          /\ Len(r.rows) = Len(fb.forecast.v)
          /\ \A i \in 1..Len(fb.forecast.v) :
                r.rows[i] = <<fb.forecast.v[i].date, fb.forecast.v[i].predicted_aqi>>

C7_Witness ==
    /\ Done
    /\ Good(aqiReq.resp)
    /\ Good(statusReq.resp)
    /\ Len(Render.rows) = MaxDays
    /\ Render.rows[1][1] > Render.rows[2][1]
    /\ Render.today # ""
    /\ Render.label # ""

\* C8: once both requests have settled, the loading flag is eventually
\* cleared and the render is the error view or the ready view.
C8_LoadingEnds ==
    BothSettled ~> (~loading /\ Render.screen \in {"error", "ready"})

C8_Witness ==
    /\ BothSettled
    /\ ~loading
    /\ Bad(statusReq.resp)
    /\ ~statusReq.resp.parses
    /\ Render.screen = "error"

\* C9: after a load in which both requests succeeded, a missing today or a
\* null or missing model_last_updated_utc leaves the ready view in place with
\* every forecast row rendered; the today block is absent exactly when today
\* is missing and the last-updated label is absent when the timestamp is.
C9_OptionalFields ==
    (/\ Done /\ Good(aqiReq.resp) /\ Good(statusReq.resp)
     /\ (~Truthy(aqiReq.resp.body.today)
           \/ ~Truthy(statusReq.resp.body.model_last_updated_utc)))
    => LET r == Render
       IN /\ r.screen = "ready"
          /\ ~Truthy(aqiReq.resp.body.today) => r.today = ""
          /\ ~Truthy(statusReq.resp.body.model_last_updated_utc) => r.label = ""
          /\ r.rows = Rows(aqiReq.resp.body.forecast.v)

C9_Witness ==
    /\ Done
    /\ Good(aqiReq.resp)
    /\ aqiReq.resp.body.today = JUndefined
    /\ lastUpdated = JNull
    /\ Len(Render.rows) = MaxDays
    /\ Render.screen = "ready"

\* C10: when both requests reject, the message shown is the reason of the
\* one that rejected first; the later rejection leaves it as it is.
C10_FirstFailureWins ==
    (Done /\ BothRejected)
    => (/\ error = JStr(ReqOf(FirstRejected).out.reason)
        /\ Render.message = ReqOf(FirstRejected).out.reason)

\* the status request, second in the array, rejected first and its message
\* is the one shown
C10_Witness ==
    /\ Done
    /\ BothRejected
    /\ FirstRejected = "status"
    /\ aqiReq.out.reason # statusReq.out.reason
    /\ Render.message = statusReq.out.reason

====
